---- MODULE Spec2Model ----
(***************************************************************************)
(* Control logic of the drip coffee maker (src/main.py) running against    *)
(* the hardware interface CoffeeMakerApi (src/api.py).                     *)
(*                                                                         *)
(* The hardware is the record api: three sensors (the brew button is a     *)
(* latch that every read resets) and the four commanded actuator states.   *)
(* Every handler of main.py is an operator on a machine record             *)
(*   [api, is_on, log, fuel, raised]                                       *)
(* that threads the hardware, the Boiler's _is_on flag, the trace of the   *)
(* calls made, the number of hardware calls that still succeed, and        *)
(* whether an exception is propagating.                                    *)
(***************************************************************************)
EXTENDS Integers, Sequences, FiniteSets, TLC

\* ---- src/api.py: status and command codes ----
WARMER_EMPTY == 0
POT_EMPTY == 1
POT_NOT_EMPTY == 2

BOILER_EMPTY == 0
BOILER_NOT_EMPTY == 1

BREW_BUTTON_PUSHED == 0
BREW_BUTTON_NOT_PUSHED == 1

BOILER_ON == 0
BOILER_OFF == 1

WARMER_ON == 0
WARMER_OFF == 1

INDICATOR_ON == 0
INDICATOR_OFF == 1

VALVE_OPEN == 0
VALVE_CLOSED == 1

\* ---- bounds and markers ----
\* presses of the brew button counted between two reads of the latch
MaxPresses == 2

\* a failing check lets at most this many hardware calls succeed before one raises
MaxFuel == 4

\* an actuator that was never commanded, a sensor that was never polled
NONE == 0 - 1

\* fuel of a machine whose hardware calls never fail
NoFail == 0 - 1

WarmerStatuses == {WARMER_EMPTY, POT_EMPTY, POT_NOT_EMPTY}
BoilerStatuses == {BOILER_EMPTY, BOILER_NOT_EMPTY}

VARIABLES
    api,        \* the hardware: sensor values, button latch, commanded actuators
    is_on,      \* Boiler._is_on
    pc,         \* run_event_loop: index of the next publisher, Sleeping, or Terminated
    log,        \* calls made in the current poll iteration (or by the last direct call)
    check_start,\* length of log when the most recent check began
    seen,       \* per publisher: <<last value passed to the observers, the one before>>
    presses,    \* presses of the brew button since the latch was last read
    pre_is_on   \* is_on when the most recent check or direct call began

vars == <<api, is_on, pc, log, check_start, seen, presses, pre_is_on>>

\* ---- the machine record and the hardware calls ----
Machine(f) ==
    [api |-> api, is_on |-> is_on, log |-> log, fuel |-> f, raised |-> FALSE]

\* one call of a CoffeeMakerApi operation: it raises when the fuel is spent,
\* and does nothing when an exception is already propagating
ApiCall(m, entry, newapi) ==
    IF m.raised THEN m
    ELSE IF m.fuel = 0 THEN [m EXCEPT !.raised = TRUE]
    ELSE [m EXCEPT !.api = newapi,
                   !.log = Append(@, entry),
                   !.fuel = IF @ = NoFail THEN @ ELSE @ - 1]

\* entry of a method of main.py in the trace
Enter(m, name) ==
    IF m.raised THEN m ELSE [m EXCEPT !.log = Append(@, <<"call", name>>)]

warmer_plate_status(m) ==
    ApiCall(m, <<"read", "warmer_plate_status", m.api.warmer_plate_status>>, m.api)

boiler_status(m) ==
    ApiCall(m, <<"read", "boiler_status", m.api.boiler_status>>, m.api)

\* the latch: the read returns the remembered state and resets it
brew_button_status(m) ==
    ApiCall(m, <<"read", "brew_button_status", m.api.brew_button_status>>,
            [m.api EXCEPT !.brew_button_status = BREW_BUTTON_NOT_PUSHED])

set_boiler_state(m, v) ==
    ApiCall(m, <<"write", "set_boiler_state", v>>, [m.api EXCEPT !.boiler_state = v])

set_warmer_state(m, v) ==
    ApiCall(m, <<"write", "set_warmer_state", v>>, [m.api EXCEPT !.warmer_state = v])

set_indicator_state(m, v) ==
    ApiCall(m, <<"write", "set_indicator_state", v>>, [m.api EXCEPT !.indicator_state = v])

set_relief_valve_state(m, v) ==
    ApiCall(m, <<"write", "set_relief_valve_state", v>>,
            [m.api EXCEPT !.relief_valve_state = v])

\* ---- sensors (publishers) ----
\* _get_status: the machine after the read, and the value the read returns
WarmerPlateSensor_get_status(m) == warmer_plate_status(m)
WarmerPlateSensor_status(m) == m.api.warmer_plate_status

BoilerSensor_get_status(m) == boiler_status(m)
BoilerSensor_status(m) == m.api.boiler_status

ButtonSensor_get_status(m) == brew_button_status(m)
ButtonSensor_status(m) == m.api.brew_button_status

\* the derived queries re-read the sensor
pot_present(m) == WarmerPlateSensor_status(m) # WARMER_EMPTY
is_empty(m) == BoilerSensor_status(m) = BOILER_EMPTY

\* ---- actuator controllers ----
WarmerPlate_turn_on(m) == set_warmer_state(m, WARMER_ON)
WarmerPlate_turn_off(m) == set_warmer_state(m, WARMER_OFF)

\* variant: the warmer follows pot presence instead of POT_NOT_EMPTY
on_observe_warmer_plate_present(m, new_status) ==
    IF new_status # WARMER_EMPTY THEN WarmerPlate_turn_on(m) ELSE WarmerPlate_turn_off(m)

on_observe_warmer_plate(m, new_status) ==
    IF new_status = POT_NOT_EMPTY THEN WarmerPlate_turn_on(m) ELSE WarmerPlate_turn_off(m)

Valve_open(m) == set_relief_valve_state(m, VALVE_OPEN)
Valve_close(m) == set_relief_valve_state(m, VALVE_CLOSED)

IndicatorLight_turn_on(m) == set_indicator_state(m, INDICATOR_ON)
IndicatorLight_turn_off(m) == set_indicator_state(m, INDICATOR_OFF)

\* variant: the light follows pot presence instead of POT_NOT_EMPTY
on_warmer_plate_status_present(m, status) ==
    IF status # WARMER_EMPTY THEN IndicatorLight_turn_on(m) ELSE IndicatorLight_turn_off(m)

on_warmer_plate_status(m, status) ==
    IF status = POT_NOT_EMPTY THEN IndicatorLight_turn_on(m) ELSE IndicatorLight_turn_off(m)

\* assignment to Boiler._is_on
set_is_on(m, b) == IF m.raised THEN m ELSE [m EXCEPT !.is_on = b]

\* variant: turn_on that leaves the valve to the warmer-plate rule
Boiler_turn_on_no_close(m) ==
    LET m0 == Enter(m, "Boiler.turn_on")
        m1 == BoilerSensor_get_status(m0)
        m2 == IF is_empty(m0) THEN m1 ELSE WarmerPlateSensor_get_status(m1)
        can_turn_on == ~is_empty(m0) /\ pot_present(m1)
    IN  IF can_turn_on
        THEN set_is_on(set_boiler_state(m2, BOILER_ON), TRUE)
        ELSE m2

\* variant: turn_on that heats before it closes the valve
Boiler_turn_on_heat_first(m) ==
    LET m0 == Enter(m, "Boiler.turn_on")
        m1 == BoilerSensor_get_status(m0)
        m2 == IF is_empty(m0) THEN m1 ELSE WarmerPlateSensor_get_status(m1)
        can_turn_on == ~is_empty(m0) /\ pot_present(m1)
    IN  IF can_turn_on
        THEN set_is_on(Valve_close(set_boiler_state(m2, BOILER_ON)), TRUE)
        ELSE m2

\* variant: turn_on that does not ask the boiler sensor
Boiler_turn_on_no_water(m) ==
    LET m0 == Enter(m, "Boiler.turn_on")
        m1 == WarmerPlateSensor_get_status(m0)
        can_turn_on == pot_present(m0)
    IN  IF can_turn_on
        THEN set_is_on(set_boiler_state(Valve_close(m1), BOILER_ON), TRUE)
        ELSE m1

\* variant: turn_on that does not ask for the pot
Boiler_turn_on_no_pot(m) ==
    LET m0 == Enter(m, "Boiler.turn_on")
        m1 == BoilerSensor_get_status(m0)
        can_turn_on == ~is_empty(m0)
    IN  IF can_turn_on
        THEN set_is_on(set_boiler_state(Valve_close(m1), BOILER_ON), TRUE)
        ELSE m1

\* can_turn_on = not is_empty and pot_present: the boiler sensor is read, and
\* the warmer-plate sensor is read only when the boiler is not empty
Boiler_turn_on(m) ==
    LET m0 == Enter(m, "Boiler.turn_on")
        m1 == BoilerSensor_get_status(m0)
        m2 == IF is_empty(m0) THEN m1 ELSE WarmerPlateSensor_get_status(m1)
        can_turn_on == ~is_empty(m0) /\ pot_present(m1)
    IN  IF can_turn_on
        THEN set_is_on(set_boiler_state(Valve_close(m2), BOILER_ON), TRUE)
        ELSE m2

\* variant: turn_off that leaves the flag as it is
Boiler_turn_off_keeps_flag(m) ==
    LET m0 == Enter(m, "Boiler.turn_off")
    IN  set_boiler_state(m0, BOILER_OFF)

\* variant: turn_off that writes only when the flag says the boiler is on
Boiler_turn_off_if_on(m) ==
    LET m0 == Enter(m, "Boiler.turn_off")
    IN  IF m0.is_on THEN set_is_on(set_boiler_state(m0, BOILER_OFF), FALSE) ELSE m0

Boiler_turn_off(m) ==
    LET m0 == Enter(m, "Boiler.turn_off")
    IN  set_is_on(set_boiler_state(m0, BOILER_OFF), FALSE)

\* ---- observers ----
WarmerPlateObserver_on_observe(m, new_status) == on_observe_warmer_plate(m, new_status)

\* variant: taking the pot away also stops the boiler
WarmerPlateStatusValveObserver_on_observe_stops_boiler(m, new_status) ==
    IF new_status = WARMER_EMPTY THEN Boiler_turn_off(Valve_open(m)) ELSE Valve_close(m)

\* variant: the valve is left alone while the boiler is on
WarmerPlateStatusValveObserver_on_observe_unless_on(m, new_status) ==
    IF m.is_on THEN m
    ELSE IF new_status = WARMER_EMPTY THEN Valve_open(m) ELSE Valve_close(m)

WarmerPlateStatusValveObserver_on_observe(m, new_status) ==
    IF new_status = WARMER_EMPTY THEN Valve_open(m) ELSE Valve_close(m)

\* variant: the boiler is turned off only while the pot is on the plate
BoilerSensorObserver_on_observe_pot(m, new_status) ==
    IF new_status = BOILER_EMPTY /\ pot_present(m) THEN Boiler_turn_off(m) ELSE m

BoilerSensorObserver_on_observe(m, new_status) ==
    IF new_status = BOILER_EMPTY THEN Boiler_turn_off(m) ELSE m

\* variant: the two button codes are taken for each other
BoilerButtonStatusObserver_on_observe_swapped(m, new_status) ==
    IF new_status = BREW_BUTTON_NOT_PUSHED THEN Boiler_turn_on(m) ELSE m

\* variant: the brew request is dropped while the flag says the boiler is on
BoilerButtonStatusObserver_on_observe_once(m, new_status) ==
    IF new_status = BREW_BUTTON_PUSHED /\ ~m.is_on THEN Boiler_turn_on(m) ELSE m

BoilerButtonStatusObserver_on_observe(m, new_status) ==
    IF new_status = BREW_BUTTON_PUSHED THEN Boiler_turn_on(m) ELSE m

IndicatorLightWarmerPlateObserver_on_observe(m, new_status) ==
    on_warmer_plate_status(m, new_status)

on_observe(m, o, new_status) ==
    CASE o = "WarmerPlateStatusValveObserver" ->
            WarmerPlateStatusValveObserver_on_observe(m, new_status)
      [] o = "WarmerPlateObserver" -> WarmerPlateObserver_on_observe(m, new_status)
      [] o = "IndicatorLightWarmerPlateObserver" ->
            IndicatorLightWarmerPlateObserver_on_observe(m, new_status)
      [] o = "BoilerSensorObserver" -> BoilerSensorObserver_on_observe(m, new_status)
      [] o = "BoilerButtonStatusObserver" ->
            BoilerButtonStatusObserver_on_observe(m, new_status)

\* ---- wiring (set_up_and_run) ----
\* variant: the boiler is polled first
publishers_boiler_first == <<"boiler_sensor", "warmer_plate_sensor", "button_sensor">>

\* the list handed to run_event_loop
publishers == <<"warmer_plate_sensor", "boiler_sensor", "button_sensor">>

\* the observers of each publisher, in the order of the add_observer calls
observers ==
    [warmer_plate_sensor |-> <<"WarmerPlateStatusValveObserver",
                               "WarmerPlateObserver",
                               "IndicatorLightWarmerPlateObserver">>,
     boiler_sensor |-> <<"BoilerSensorObserver">>,
     button_sensor |-> <<"BoilerButtonStatusObserver">>]

WarmerPlateCheck == 1
BoilerCheck == 2
ButtonCheck == 3
Sleeping == Len(publishers) + 1
Terminated == 0

\* ---- IStatusPublisher.check_status ----
get_status(m, p) ==
    CASE p = "warmer_plate_sensor" -> WarmerPlateSensor_get_status(m)
      [] p = "boiler_sensor" -> BoilerSensor_get_status(m)
      [] p = "button_sensor" -> ButtonSensor_get_status(m)

status_value(m, p) ==
    CASE p = "warmer_plate_sensor" -> WarmerPlateSensor_status(m)
      [] p = "boiler_sensor" -> BoilerSensor_status(m)
      [] p = "button_sensor" -> ButtonSensor_status(m)

\* variant: an observer's exception is swallowed and the next observer is notified
RECURSIVE notify_isolating(_, _, _)
notify_isolating(m, os, new_status) ==
    IF os = <<>> THEN m
    ELSE LET r == on_observe(m, Head(os), new_status)
         IN  notify_isolating([r EXCEPT !.raised = m.raised], Tail(os), new_status)

\* variant: only the first observer is notified
notify_first(m, os, new_status) ==
    IF os = <<>> THEN m ELSE on_observe(m, Head(os), new_status)

RECURSIVE notify(_, _, _)
notify(m, os, new_status) ==
    IF os = <<>> THEN m
    ELSE notify(on_observe(m, Head(os), new_status), Tail(os), new_status)

\* variant: the observers are notified only when the status changed
check_status_on_change(m, p) ==
    LET new_status == status_value(m, p)
        i == CHOOSE k \in 1..Len(publishers) : publishers[k] = p
    IN  IF new_status = seen[i][1]
        THEN get_status(m, p)
        ELSE notify(get_status(m, p), observers[p], new_status)

check_status(m, p) ==
    LET new_status == status_value(m, p)
    IN  notify(get_status(m, p), observers[p], new_status)

\* ---- state ----
Init ==
    /\ api \in [warmer_plate_status : WarmerStatuses,
                boiler_status : BoilerStatuses,
                brew_button_status : {BREW_BUTTON_NOT_PUSHED},
                boiler_state : {NONE},
                warmer_state : {NONE},
                indicator_state : {NONE},
                relief_valve_state : {NONE}]
    /\ is_on = FALSE
    /\ pc = 1
    /\ log = <<>>
    /\ check_start = 0
    /\ seen = [i \in 1..Len(publishers) |-> <<NONE, NONE>>]
    /\ presses = 0
    /\ pre_is_on = FALSE

\* ---- run_event_loop: one publisher.check_status() of the for loop ----
CheckPublisherF(i, f) ==
    /\ pc = i
    /\ i \in 1..Len(publishers)
    /\ \E m \in {check_status(Machine(f), publishers[i])} :
       LET m0 == Machine(f)
           was_read == f # 0
       IN  /\ api' = m.api
           /\ is_on' = m.is_on
           /\ log' = m.log
           /\ pc' = IF m.raised THEN Terminated ELSE i + 1
           /\ seen' = IF was_read
                      THEN [seen EXCEPT ![i] = <<status_value(m0, publishers[i]), @[1]>>]
                      ELSE seen
           /\ presses' = IF was_read /\ i = ButtonCheck THEN 0 ELSE presses
    /\ check_start' = Len(log)
    /\ pre_is_on' = is_on

CheckWarmerPlate ==
    /\ pc = WarmerPlateCheck
    /\ CheckPublisherF(WarmerPlateCheck, NoFail)

CheckBoiler ==
    /\ pc = BoilerCheck
    /\ CheckPublisherF(BoilerCheck, NoFail)

CheckButton ==
    /\ pc = ButtonCheck
    /\ CheckPublisherF(ButtonCheck, NoFail)

\* variant: the loop body runs once and run_event_loop returns
Sleep_once ==
    /\ pc = Sleeping
    /\ pc' = Terminated
    /\ UNCHANGED <<api, is_on, log, check_start, seen, presses, pre_is_on>>

\* time.sleep(interval) and the start of the next iteration
Sleep ==
    /\ pc = Sleeping
    /\ pc' = 1
    /\ log' = <<>>
    /\ check_start' = 0
    /\ UNCHANGED <<api, is_on, seen, presses, pre_is_on>>

\* ---- the environment: the physical machine and its user ----
WarmerPlateChanges ==
    /\ \E s \in WarmerStatuses \ {api.warmer_plate_status} :
          api' = [api EXCEPT !.warmer_plate_status = s]
    /\ UNCHANGED <<is_on, pc, log, check_start, seen, presses, pre_is_on>>

BoilerChanges ==
    /\ \E s \in BoilerStatuses \ {api.boiler_status} :
          api' = [api EXCEPT !.boiler_status = s]
    /\ UNCHANGED <<is_on, pc, log, check_start, seen, presses, pre_is_on>>

PressButton ==
    /\ presses < MaxPresses
    /\ api' = [api EXCEPT !.brew_button_status = BREW_BUTTON_PUSHED]
    /\ presses' = presses + 1
    /\ UNCHANGED <<is_on, pc, log, check_start, seen, pre_is_on>>

Next ==
    \/ CheckWarmerPlate
    \/ CheckBoiler
    \/ CheckButton
    \/ Sleep
    \/ WarmerPlateChanges
    \/ BoilerChanges
    \/ PressButton

Spec == Init /\ [][Next]_vars

\* ---- reading the trace ----
IsWrite(e) == e[1] = "write"
IsRead(e) == e[1] = "read"
IsHardware(e) == e[1] \in {"read", "write"}

Writes(s) == SelectSeq(s, IsWrite)
Reads(s) == SelectSeq(s, IsRead)
Hardware(s) == SelectSeq(s, IsHardware)

\* ---- the same loop on hardware whose calls can raise ----
\* the hardware calls the check of the publisher at pc makes when none fails
CallsOfCheck ==
    Len(Hardware(check_status(Machine(NoFail), publishers[pc]).log)) - Len(Hardware(log))

\* a check in which the hardware call after f successful ones raises: the
\* exception leaves check_status and run_event_loop
CheckFails ==
    /\ pc \in 1..Len(publishers)
    /\ \E f \in 0..MaxFuel :
          /\ f < CallsOfCheck
          /\ CheckPublisherF(pc, f)

NextFail ==
    \/ Next
    \/ CheckFails

SpecFail == Init /\ [][NextFail]_vars

\* ---- the loop as the interpreter schedules it ----
\* the steps of the one thread that runs the loop
LoopStep ==
    \/ CheckWarmerPlate
    \/ CheckBoiler
    \/ CheckButton
    \/ Sleep

\* the thread keeps running: a check that is due is made, and a sleep ends
SpecLive == Spec /\ WF_vars(LoopStep)

\* ---- direct calls of the controllers' operations ----
DirectCall(m) ==
    /\ api' = m.api
    /\ is_on' = m.is_on
    /\ log' = m.log
    /\ pre_is_on' = is_on
    /\ UNCHANGED <<pc, check_start, seen, presses>>

Fresh == [Machine(NoFail) EXCEPT !.log = <<>>]

CallTurnOn ==
    /\ pc # Terminated
    /\ DirectCall(Boiler_turn_on(Fresh))

CallTurnOff ==
    /\ pc # Terminated
    /\ DirectCall(Boiler_turn_off(Fresh))

CallValveOpen ==
    /\ pc # Terminated
    /\ DirectCall(Valve_open(Enter(Fresh, "Valve.open")))

CallValveClose ==
    /\ pc # Terminated
    /\ DirectCall(Valve_close(Enter(Fresh, "Valve.close")))

NextUnit ==
    \/ CallTurnOn
    \/ CallTurnOff
    \/ CallValveOpen
    \/ CallValveClose
    \/ WarmerPlateChanges
    \/ BoilerChanges

SpecUnit == Init /\ [][NextUnit]_vars

\* the calls of the most recent check
LastCheck == SubSeq(log, check_start + 1, Len(log))

TypeOK ==
    /\ api.warmer_plate_status \in WarmerStatuses
    /\ api.boiler_status \in BoilerStatuses
    /\ api.brew_button_status \in {BREW_BUTTON_PUSHED, BREW_BUTTON_NOT_PUSHED}
    /\ api.boiler_state \in {NONE, BOILER_ON, BOILER_OFF}
    /\ api.warmer_state \in {NONE, WARMER_ON, WARMER_OFF}
    /\ api.indicator_state \in {NONE, INDICATOR_ON, INDICATOR_OFF}
    /\ api.relief_valve_state \in {NONE, VALVE_OPEN, VALVE_CLOSED}
    /\ is_on \in BOOLEAN
    /\ pc \in 0..Sleeping
    /\ presses \in 0..MaxPresses

\* the value the most recent check read and passed to its observers
CheckedStatus == LastCheck[1][3]

\* the state right after the check of publisher i
After(i) == pc = i + 1

ValveClosedWrite == <<"write", "set_relief_valve_state", VALVE_CLOSED>>
ValveOpenWrite == <<"write", "set_relief_valve_state", VALVE_OPEN>>
BoilerOnWrite == <<"write", "set_boiler_state", BOILER_ON>>
BoilerOffWrite == <<"write", "set_boiler_state", BOILER_OFF>>
WarmerOffWrite == <<"write", "set_warmer_state", WARMER_OFF>>
IndicatorOffWrite == <<"write", "set_indicator_state", INDICATOR_OFF>>

Last(s) == s[Len(s)]

(***************************************************************************)
(* C1. Every call of Boiler.turn_on(): when the boiler sensor reads        *)
(* not-empty and the warmer-plate sensor reads a status other than         *)
(* WARMER_EMPTY at call time, the call writes valve-closed, then           *)
(* boiler-on, and leaves is_on true; otherwise it issues no hardware write *)
(* and leaves is_on and the hardware as they were. The call itself reads   *)
(* the boiler sensor, and the warmer-plate sensor when the boiler is not   *)
(* empty.                                                                  *)
(***************************************************************************)
C1_TurnOnContract ==
    [][CallTurnOn =>
        LET can == /\ api.boiler_status # BOILER_EMPTY
                   /\ api.warmer_plate_status # WARMER_EMPTY
        IN  /\ can => /\ Writes(log') = <<ValveClosedWrite, BoilerOnWrite>>
                      /\ api' = [api EXCEPT !.relief_valve_state = VALVE_CLOSED,
                                            !.boiler_state = BOILER_ON]
                      /\ is_on' = TRUE
            /\ ~can => /\ Writes(log') = <<>>
                       /\ api' = api
                       /\ is_on' = is_on
            /\ Reads(log') =
                  IF api.boiler_status = BOILER_EMPTY
                  THEN << <<"read", "boiler_status", api.boiler_status>> >>
                  ELSE << <<"read", "boiler_status", api.boiler_status>>,
                          <<"read", "warmer_plate_status", api.warmer_plate_status>> >>
    ]_vars

\* a turn_on that took effect from a boiler that was off with the valve open
C1_Witness ==
    /\ log # <<>>
    /\ Head(log) = <<"call", "Boiler.turn_on">>
    /\ Writes(log) = <<ValveClosedWrite, BoilerOnWrite>>
    /\ ~pre_is_on
    /\ is_on
    /\ api.warmer_plate_status = POT_EMPTY

C3_WarmerIffPotPresent ==
    After(WarmerPlateCheck) =>
        api.warmer_state = IF CheckedStatus # WARMER_EMPTY THEN WARMER_ON ELSE WARMER_OFF

(***************************************************************************)
(* C3 amended: after the warmer-plate check that read s, the warmer plate  *)
(* is commanded on when s = POT_NOT_EMPTY and commanded off otherwise      *)
(* (WARMER_EMPTY or POT_EMPTY).                                            *)
(***************************************************************************)
C3_WarmerIffPotNotEmpty ==
    After(WarmerPlateCheck) =>
        api.warmer_state = IF CheckedStatus = POT_NOT_EMPTY THEN WARMER_ON ELSE WARMER_OFF

\* an empty pot on the plate: the warmer is commanded off
C3_Witness ==
    /\ After(WarmerPlateCheck)
    /\ CheckedStatus = POT_EMPTY
    /\ api.warmer_state = WARMER_OFF
    /\ WarmerOffWrite = Writes(LastCheck)[2]

(***************************************************************************)
(* C4. Right after the warmer-plate check that read s, the relief valve is *)
(* commanded open iff s = WARMER_EMPTY and commanded closed otherwise,     *)
(* whatever is_on and the boiler sensor are.                               *)
(***************************************************************************)
C4_ValveOpenIffWarmerEmpty ==
    After(WarmerPlateCheck) =>
        api.relief_valve_state =
            IF CheckedStatus = WARMER_EMPTY THEN VALVE_OPEN ELSE VALVE_CLOSED

\* the pot is taken away while the boiler is on: the valve is opened
C4_Witness ==
    /\ After(WarmerPlateCheck)
    /\ CheckedStatus = WARMER_EMPTY
    /\ is_on
    /\ api.boiler_status = BOILER_NOT_EMPTY
    /\ api.relief_valve_state = VALVE_OPEN

(***************************************************************************)
(* C5. Boiler.turn_off() from any state writes boiler-off, touches no      *)
(* other hardware state and leaves is_on false; a second call right after  *)
(* it writes boiler-off again and leaves the same state.                   *)
(***************************************************************************)
C5_TurnOffIdempotent ==
    [][CallTurnOff =>
        /\ Hardware(log') = <<BoilerOffWrite>>
        /\ api' = [api EXCEPT !.boiler_state = BOILER_OFF]
        /\ is_on' = FALSE
        /\ LET again == Boiler_turn_off(
                            [api |-> api', is_on |-> is_on', log |-> <<>>,
                             fuel |-> NoFail, raised |-> FALSE])
           IN  /\ Hardware(again.log) = <<BoilerOffWrite>>
               /\ again.api = api'
               /\ again.is_on = is_on'
    ]_vars

\* a turn_off of a boiler that was on
C5_Witness ==
    /\ log # <<>>
    /\ Head(log) = <<"call", "Boiler.turn_off">>
    /\ pre_is_on
    /\ ~is_on
    /\ api.boiler_state = BOILER_OFF

\* every read of sensor op in the trace s returned a value in vs
AllReads(s, op, vs) ==
    \A k \in 1..Len(s) : (s[k][1] = "read" /\ s[k][2] = op) => s[k][3] \in vs

IsTurnOnCall(e) == e = <<"call", "Boiler.turn_on">>
IsButtonRead(e) == e[1] = "read" /\ e[2] = "brew_button_status"
IsValveWrite(e) == e[1] = "write" /\ e[2] = "set_relief_valve_state"

InTrace(s, e) == \E k \in 1..Len(s) : s[k] = e

\* the poll iteration is complete: all three checks are in log
IterationDone == pc = Sleeping

(***************************************************************************)
(* C6. Scenario 1: a complete poll iteration in which every read of the    *)
(* boiler sensor returned not-empty, every read of the warmer-plate sensor *)
(* returned a pot-present status and the button check read pushed ends     *)
(* with the valve commanded closed, the boiler commanded on and is_on true.*)
(***************************************************************************)
C6_Scenario1 ==
    ( /\ IterationDone
      /\ AllReads(log, "boiler_status", {BOILER_NOT_EMPTY})
      /\ AllReads(log, "warmer_plate_status", {POT_EMPTY, POT_NOT_EMPTY})
      /\ AllReads(log, "brew_button_status", {BREW_BUTTON_PUSHED}) )
    => /\ api.relief_valve_state = VALVE_CLOSED
       /\ api.boiler_state = BOILER_ON
       /\ is_on

\* scenario 1 with the boiler already on when the button was pushed again
C6_Witness ==
    /\ IterationDone
    /\ AllReads(log, "boiler_status", {BOILER_NOT_EMPTY})
    /\ AllReads(log, "warmer_plate_status", {POT_EMPTY, POT_NOT_EMPTY})
    /\ AllReads(log, "brew_button_status", {BREW_BUTTON_PUSHED})
    /\ pre_is_on
    /\ Writes(LastCheck) = <<ValveClosedWrite, BoilerOnWrite>>

(***************************************************************************)
(* C7. Scenario 2: a complete poll iteration in which every read of the    *)
(* boiler sensor returned empty, every read of the warmer-plate sensor     *)
(* returned a pot-present status and the button check read pushed issues   *)
(* no boiler-on write, ends with is_on false, and ends with the valve      *)
(* closed by the one valve write of the iteration, the warmer-plate        *)
(* rule's.                                                                 *)
(***************************************************************************)
C7_Scenario2 ==
    ( /\ IterationDone
      /\ AllReads(log, "boiler_status", {BOILER_EMPTY})
      /\ AllReads(log, "warmer_plate_status", {POT_EMPTY, POT_NOT_EMPTY})
      /\ AllReads(log, "brew_button_status", {BREW_BUTTON_PUSHED}) )
    => /\ ~InTrace(log, BoilerOnWrite)
       /\ ~is_on
       /\ api.relief_valve_state = VALVE_CLOSED
       /\ SelectSeq(log, IsValveWrite) = <<ValveClosedWrite>>
       /\ log[2] = ValveClosedWrite

\* scenario 2: turn_on was called and did nothing
C7_Witness ==
    /\ IterationDone
    /\ AllReads(log, "boiler_status", {BOILER_EMPTY})
    /\ AllReads(log, "warmer_plate_status", {POT_EMPTY, POT_NOT_EMPTY})
    /\ AllReads(log, "brew_button_status", {BREW_BUTTON_PUSHED})
    /\ InTrace(LastCheck, <<"call", "Boiler.turn_on">>)
    /\ Writes(LastCheck) = <<>>
    /\ api.boiler_state = BOILER_OFF

(***************************************************************************)
(* C8. Scenario 3: a boiler check that starts with is_on true and reads    *)
(* empty writes boiler-off and leaves is_on false, for every warmer-plate  *)
(* status and every value of the button latch.                             *)
(***************************************************************************)
C8_Scenario3 ==
    (After(BoilerCheck) /\ pre_is_on /\ CheckedStatus = BOILER_EMPTY)
    => /\ Writes(LastCheck) = <<BoilerOffWrite>>
       /\ api.boiler_state = BOILER_OFF
       /\ ~is_on

\* the boiler ran dry with the pot taken away and the button pushed again
C8_Witness ==
    /\ After(BoilerCheck)
    /\ pre_is_on
    /\ CheckedStatus = BOILER_EMPTY
    /\ seen[BoilerCheck][2] = BOILER_NOT_EMPTY
    /\ ~is_on
    /\ api.warmer_plate_status = WARMER_EMPTY
    /\ api.brew_button_status = BREW_BUTTON_PUSHED

(***************************************************************************)
(* C9. Scenario 4: the warmer-plate check that first reads WARMER_EMPTY    *)
(* after a check that read a pot-present status commands, in that one      *)
(* check, the warmer plate off, the indicator light off and the relief     *)
(* valve open.                                                             *)
(***************************************************************************)
C9_Scenario4 ==
    ( /\ After(WarmerPlateCheck)
      /\ CheckedStatus = WARMER_EMPTY
      /\ seen[WarmerPlateCheck][2] \in {POT_EMPTY, POT_NOT_EMPTY} )
    => /\ InTrace(LastCheck, WarmerOffWrite)
       /\ InTrace(LastCheck, IndicatorOffWrite)
       /\ InTrace(LastCheck, ValveOpenWrite)
       /\ api.warmer_state = WARMER_OFF
       /\ api.indicator_state = INDICATOR_OFF
       /\ api.relief_valve_state = VALVE_OPEN

\* a pot with coffee was taken off the plate
C9_Witness ==
    /\ After(WarmerPlateCheck)
    /\ CheckedStatus = WARMER_EMPTY
    /\ seen[WarmerPlateCheck] = <<WARMER_EMPTY, POT_NOT_EMPTY>>
    /\ Len(Writes(LastCheck)) = 3
    /\ api.warmer_state = WARMER_OFF
    /\ api.indicator_state = INDICATOR_OFF
    /\ api.relief_valve_state = VALVE_OPEN

(***************************************************************************)
(* C10. Brew-button latch: a button check reads brew_button_status once,   *)
(* leaves the latch not-pushed, and invokes Boiler.turn_on() once when the *)
(* button was pressed (once or several times) since the latch was last     *)
(* read and not at all otherwise; no other step invokes Boiler.turn_on().  *)
(* The latch is pushed exactly when there was a press since its last read. *)
(***************************************************************************)
C10_ButtonLatch ==
    [][ /\ (api'.brew_button_status = BREW_BUTTON_PUSHED) <=> (presses' > 0)
        /\ IF pc = ButtonCheck /\ pc' # pc
           THEN LET new == SubSeq(log', Len(log) + 1, Len(log'))
                IN  /\ Len(SelectSeq(new, IsButtonRead)) = 1
                    /\ api'.brew_button_status = BREW_BUTTON_NOT_PUSHED
                    /\ Len(SelectSeq(new, IsTurnOnCall)) = IF presses > 0 THEN 1 ELSE 0
           ELSE Len(SelectSeq(log', IsTurnOnCall)) <= Len(SelectSeq(log, IsTurnOnCall))
    ]_vars

\* a press was seen by the previous button check and not again by this one
C10_Witness ==
    /\ IterationDone
    /\ seen[ButtonCheck] = <<BREW_BUTTON_NOT_PUSHED, BREW_BUTTON_PUSHED>>
    /\ ~InTrace(log, <<"call", "Boiler.turn_on">>)
    /\ presses = 0
    /\ api.boiler_status = BOILER_NOT_EMPTY
    /\ api.warmer_plate_status = POT_NOT_EMPTY

\* the sensor each publisher reads
sensor_of(i) ==
    CASE i = WarmerPlateCheck -> "warmer_plate_status"
      [] i = BoilerCheck -> "boiler_status"
      [] i = ButtonCheck -> "brew_button_status"

\* the part of the trace t that follows the trace s it extends
NewCalls(s, t) == SubSeq(t, Len(s) + 1, Len(t))

IsPrefix(s, t) == Len(s) <= Len(t) /\ SubSeq(t, 1, Len(s)) = s

(***************************************************************************)
(* C11. Every check begins with the one read of its sensor, and a          *)
(* warmer-plate check then issues exactly one relief-valve write, one      *)
(* warmer write and one indicator write, in that order, each decided by    *)
(* the value just read, also when that value is the one the previous check *)
(* read.                                                                   *)
(***************************************************************************)
C11_EveryObserverEveryCheck ==
    /\ \A i \in 1..Len(publishers) :
          After(i) =>
              /\ LastCheck # <<>>
              /\ Head(LastCheck) = <<"read", sensor_of(i), seen[i][1]>>
    /\ After(WarmerPlateCheck) =>
          LET s == CheckedStatus
          IN  LastCheck =
                << <<"read", "warmer_plate_status", s>>,
                   <<"write", "set_relief_valve_state",
                     IF s = WARMER_EMPTY THEN VALVE_OPEN ELSE VALVE_CLOSED>>,
                   <<"write", "set_warmer_state",
                     IF s = POT_NOT_EMPTY THEN WARMER_ON ELSE WARMER_OFF>>,
                   <<"write", "set_indicator_state",
                     IF s = POT_NOT_EMPTY THEN INDICATOR_ON ELSE INDICATOR_OFF>> >>
    /\ After(BoilerCheck) => Len(Reads(LastCheck)) = 1
    /\ After(ButtonCheck) => Len(SelectSeq(LastCheck, IsButtonRead)) = 1

\* a warmer-plate check that read the same status as the check before it
C11_Witness ==
    /\ After(WarmerPlateCheck)
    /\ seen[WarmerPlateCheck] = <<POT_NOT_EMPTY, POT_NOT_EMPTY>>
    /\ Len(Writes(LastCheck)) = 3
    /\ Len(Reads(LastCheck)) = 1

(***************************************************************************)
(* C12. The loop is sequential: the position in the loop only moves from   *)
(* one publisher to the next in the order warmer-plate, boiler, button,    *)
(* then to the sleep, then back to the first publisher; the calls of a     *)
(* check are appended to the trace of the iteration as one block that      *)
(* starts with the read of that publisher's sensor; no other step makes a  *)
(* hardware call; a complete iteration holds the three blocks in order.    *)
(***************************************************************************)
C12_SequentialLoop ==
    [][ /\ IF pc \in 1..Len(publishers) /\ pc' # pc
           THEN /\ pc' = pc + 1
                /\ IsPrefix(log, log')
                /\ Head(NewCalls(log, log')) = <<"read", sensor_of(pc), seen'[pc][1]>>
                /\ Len(log) = check_start'
           ELSE IF pc = Sleeping /\ pc' # pc
           THEN pc' = 1 /\ log' = <<>>
           ELSE pc' = pc /\ log' = log
        /\ pc' = Sleeping =>
              /\ log'[1][2] = "warmer_plate_status"
              /\ log'[5][2] = "boiler_status"
              /\ \A k \in 1..Len(log') :
                    /\ IsValveWrite(log'[k]) => (k < 5 \/ k > check_start')
                    /\ log'[k][2] \in {"set_warmer_state", "set_indicator_state"} => k < 5
                    /\ IsButtonRead(log'[k]) => k = check_start' + 1 /\ k > 5
                    /\ log'[k][2] = "set_boiler_state" => k > 5
    ]_vars

\* the second iteration is complete
C12_Witness ==
    /\ IterationDone
    /\ \A i \in 1..Len(publishers) : seen[i][2] # NONE
    /\ Len(log) >= 6
    /\ InTrace(log, BoilerOffWrite)

\* the state the writes of the trace ws leave in the hardware a
RECURSIVE ApplyWrites(_, _)
ApplyWrites(a, ws) ==
    IF ws = <<>> THEN a
    ELSE LET w == Head(ws)
             b == CASE w[2] = "set_boiler_state" -> [a EXCEPT !.boiler_state = w[3]]
                    [] w[2] = "set_warmer_state" -> [a EXCEPT !.warmer_state = w[3]]
                    [] w[2] = "set_indicator_state" -> [a EXCEPT !.indicator_state = w[3]]
                    [] w[2] = "set_relief_valve_state" ->
                          [a EXCEPT !.relief_valve_state = w[3]]
         IN  ApplyWrites(b, Tail(ws))

Actuators(a) ==
    <<a.boiler_state, a.warmer_state, a.indicator_state, a.relief_valve_state>>

(***************************************************************************)
(* C13. A check in which a hardware call raises ends the loop: the calls   *)
(* made are a proper prefix of the calls the check makes without the       *)
(* failure, the actuators hold what the writes before the failure          *)
(* commanded, and the loop is terminated; a check without a failure makes  *)
(* all its calls and moves on. Once terminated, no publisher is checked,   *)
(* no hardware call is made, and actuators and is_on stay as they were.    *)
(***************************************************************************)
C13_NoRecovery ==
    [][ /\ pc = Terminated =>
              /\ pc' = Terminated
              /\ log' = log
              /\ is_on' = is_on
              /\ Actuators(api') = Actuators(api)
              /\ api.brew_button_status = BREW_BUTTON_PUSHED
                    => api'.brew_button_status = BREW_BUTTON_PUSHED
        /\ (pc \in 1..Len(publishers) /\ pc' # pc) =>
              LET full == check_status(Machine(NoFail), publishers[pc])
                  made == NewCalls(log, log')
              IN  /\ IsPrefix(log', full.log)
                  /\ Actuators(api') = Actuators(ApplyWrites(api, Writes(made)))
                  /\ \/ /\ pc' = pc + 1
                        /\ log' = full.log
                     \/ /\ pc' = Terminated
                        /\ Len(Hardware(log')) < Len(Hardware(full.log))
                        /\ is_on' = IF InTrace(made, BoilerOffWrite) THEN FALSE ELSE is_on
    ]_vars

\* the warmer write raised after the valve was opened: the loop is over, the
\* indicator was never commanded
C13_Witness ==
    /\ pc = Terminated
    /\ LastCheck = << <<"read", "warmer_plate_status", WARMER_EMPTY>>, ValveOpenWrite >>
    /\ api.relief_valve_state = VALVE_OPEN
    /\ api.warmer_state = WARMER_ON
    /\ api.indicator_state = INDICATOR_ON

(***************************************************************************)
(* C14. With hardware whose calls do not fail the loop never terminates,   *)
(* and each of the three publishers is checked infinitely often.           *)
(***************************************************************************)
C14_LoopForever ==
    /\ [](pc # Terminated)
    /\ []<>After(WarmerPlateCheck)
    /\ []<>After(BoilerCheck)
    /\ []<>After(ButtonCheck)

\* the loop is at the start of its third iteration
C14_Witness ==
    /\ pc = WarmerPlateCheck
    /\ log = <<>>
    /\ \A i \in 1..Len(publishers) : seen[i][1] # NONE /\ seen[i][2] # NONE

(***************************************************************************)
(* C15. In every check, a boiler-on write comes right after a valve-closed *)
(* write, and is_on becomes true only in a check that wrote boiler-on; a   *)
(* turn_on() whose valve-closed write raises writes no boiler-on and       *)
(* leaves is_on as it was.                                                 *)
(***************************************************************************)
C15_ValveClosedBeforeBoilerOn ==
    [][ (pc \in 1..Len(publishers) /\ pc' # pc) =>
            LET made == NewCalls(log, log')
            IN  /\ \A k \in 1..Len(made) :
                      made[k] = BoilerOnWrite => (k > 1 /\ made[k - 1] = ValveClosedWrite)
                /\ (is_on' /\ ~is_on) => InTrace(made, BoilerOnWrite)
                /\ InTrace(made, <<"call", "Boiler.turn_on">>) =>
                      /\ is_on' = IF InTrace(made, BoilerOnWrite) THEN TRUE ELSE is_on
                      /\ ~InTrace(made, ValveClosedWrite) =>
                            /\ ~InTrace(made, BoilerOnWrite)
                            /\ api'.boiler_state = api.boiler_state
    ]_vars

\* turn_on found water and the pot, and its valve-closed write raised
C15_Witness ==
    /\ pc = Terminated
    /\ LastCheck = << <<"read", "brew_button_status", BREW_BUTTON_PUSHED>>,
                      <<"call", "Boiler.turn_on">>,
                      <<"read", "boiler_status", BOILER_NOT_EMPTY>>,
                      <<"read", "warmer_plate_status", POT_NOT_EMPTY>> >>
    /\ ~is_on
    /\ api.boiler_state # BOILER_ON
    /\ api.relief_valve_state = VALVE_OPEN

(***************************************************************************)
(* C16 as stated: after any sequence of turn_on() and turn_off() calls,    *)
(* is_on is true iff the last operation invoked on the boiler was          *)
(* turn_on(), and is_on equals the most recent boiler write (false when    *)
(* none was issued).                                                       *)
(***************************************************************************)
C16_LastOperationInvoked ==
    /\ is_on <=> api.boiler_state = BOILER_ON
    /\ (log # <<>> /\ Head(log) = <<"call", "Boiler.turn_on">>) => is_on
    /\ (log # <<>> /\ Head(log) = <<"call", "Boiler.turn_off">>) => ~is_on

(***************************************************************************)
(* C16 amended: is_on equals the most recent boiler write (false when none *)
(* was issued); after turn_off() it is false; after a turn_on() that wrote *)
(* boiler-on it is true, and after a turn_on() whose precondition failed   *)
(* it is what it was before the call.                                      *)
(***************************************************************************)
C16_LastOperationThatTookEffect ==
    /\ is_on <=> api.boiler_state = BOILER_ON
    /\ (log # <<>> /\ Head(log) = <<"call", "Boiler.turn_on">>) =>
          is_on = IF InTrace(log, BoilerOnWrite) THEN TRUE ELSE pre_is_on
    /\ (log # <<>> /\ Head(log) = <<"call", "Boiler.turn_off">>) => ~is_on

\* turn_on() was the last call, did nothing, and the boiler stays off
C16_Witness ==
    /\ log # <<>>
    /\ Head(log) = <<"call", "Boiler.turn_on">>
    /\ Writes(log) = <<>>
    /\ ~is_on
    /\ api.boiler_state = BOILER_OFF

\* what the warmer-plate rule commands for the status s
ValveRule(s) == IF s = WARMER_EMPTY THEN VALVE_OPEN ELSE VALVE_CLOSED

(***************************************************************************)
(* C17 as stated: at the end of every poll iteration the relief valve is   *)
(* in the state the warmer-plate rule gave for the status read by that     *)
(* iteration's warmer-plate check, also when turn_on() ran in the button   *)
(* poll and the sensors changed between the polls.                         *)
(***************************************************************************)
C17_ValveFollowsWarmerRule ==
    IterationDone => api.relief_valve_state = ValveRule(log[1][3])

(***************************************************************************)
(* C17 amended: at the end of every poll iteration the relief valve is     *)
(* closed when turn_on() took effect in the button poll, and otherwise in  *)
(* the state the warmer-plate rule gave for the status read by that        *)
(* iteration's warmer-plate check; the two agree whenever every read of    *)
(* the warmer-plate sensor in the iteration returned the same status.      *)
(***************************************************************************)
C17_ValveFollowsLastValveWrite ==
    IterationDone =>
        /\ api.relief_valve_state =
              IF InTrace(LastCheck, BoilerOnWrite) THEN VALVE_CLOSED
              ELSE ValveRule(log[1][3])
        /\ AllReads(log, "warmer_plate_status", {log[1][3]})
              => api.relief_valve_state = ValveRule(log[1][3])

\* the pot was put on the plate between the warmer-plate poll and the button
\* poll: the rule opened the valve and turn_on() closed it
C17_Witness ==
    /\ IterationDone
    /\ log[1] = <<"read", "warmer_plate_status", WARMER_EMPTY>>
    /\ log[2] = ValveOpenWrite
    /\ InTrace(LastCheck, BoilerOnWrite)
    /\ api.relief_valve_state = VALVE_CLOSED

IsBoilerWrite(e) == e[1] = "write" /\ e[2] = "set_boiler_state"
IsWarmerOrIndicatorWrite(e) ==
    e[1] = "write" /\ e[2] \in {"set_warmer_state", "set_indicator_state"}
IsBoilerCall(e) == e \in {<<"call", "Boiler.turn_on">>, <<"call", "Boiler.turn_off">>}

C19_WhereIsOnChanges ==
    [][ LET turns_on == /\ pc = ButtonCheck
                        /\ api.brew_button_status = BREW_BUTTON_PUSHED
                        /\ api.boiler_status = BOILER_NOT_EMPTY
                        /\ api.warmer_plate_status # WARMER_EMPTY
            turns_off == /\ pc = BoilerCheck
                         /\ api.boiler_status = BOILER_EMPTY
            made == IF IsPrefix(log, log') THEN NewCalls(log, log') ELSE <<>>
        IN  /\ (~is_on /\ is_on') => turns_on
            /\ (is_on /\ ~is_on') => turns_off
            /\ InTrace(made, BoilerOnWrite) => turns_on
            /\ InTrace(made, BoilerOffWrite) => turns_off
            /\ api'.boiler_state # api.boiler_state => (turns_on \/ turns_off)
    ]_vars

\* a button check has just turned the boiler on
C19_Witness ==
    /\ After(ButtonCheck)
    /\ ~pre_is_on
    /\ is_on
    /\ seen[ButtonCheck][1] = BREW_BUTTON_PUSHED
    /\ seen[BoilerCheck][1] = BOILER_NOT_EMPTY

(***************************************************************************)
(* C20. Dry-boil safety: a complete poll iteration in which every read of  *)
(* the boiler sensor returned empty ends with is_on false and with         *)
(* boiler-off as the last boiler write, whatever is_on was, whether or not *)
(* the button was pushed, and whatever the warmer-plate status is.         *)
(***************************************************************************)
C20_DryBoilSafety ==
    (IterationDone /\ AllReads(log, "boiler_status", {BOILER_EMPTY}))
    => /\ ~is_on
       /\ api.boiler_state = BOILER_OFF
       /\ Last(SelectSeq(log, IsBoilerWrite)) = BoilerOffWrite

\* an empty boiler, no pot, and the button pushed: turn_on() asked the boiler
\* sensor and did nothing
C20_Witness ==
    /\ IterationDone
    /\ AllReads(log, "boiler_status", {BOILER_EMPTY})
    /\ log[1][3] = WARMER_EMPTY
    /\ seen[BoilerCheck] = <<BOILER_EMPTY, BOILER_NOT_EMPTY>>
    /\ InTrace(LastCheck, <<"call", "Boiler.turn_on">>)
    /\ ~is_on
====
